---------------------------- MODULE Spec2Model ----------------------------
(***************************************************************************)
(* Books app: the Google Books client functions (fetchPopularBooks,        *)
(* fetchBookById, SearchScreen.fetchBooks), their error classifiers, the   *)
(* Search screen's debounced query controller and the Detail screen's      *)
(* lookup effect.                                                          *)
(*                                                                         *)
(* Text that the code inspects (exception messages, query text, ids) is a  *)
(* sequence of one-character strings, so that trim, includes, startsWith   *)
(* and the encoders are computed and not assumed.  A component's state     *)
(* variable holds the value last handed to its useState setter.            *)
(***************************************************************************)
EXTENDS Integers, Sequences, FiniteSets, TLC

VARIABLES
    \* ---- client functions called directly (api.test.tsx style) ----
    BOOKS_API_KEY,   \* process.env.EXPO_PUBLIC_GOOGLE_BOOKS_API_KEY
    apiCall,         \* the client call made: [fn, arg]
    apiOutcome,      \* what fetch did for that call
    apiUrl,          \* the URL handed to fetch
    apiResult        \* the pair the call resolved with

apiVars == <<BOOKS_API_KEY, apiCall, apiOutcome, apiUrl, apiResult>>

VARIABLES
    \* ---- SearchScreen (app/search.tsx) ----
    mounted,         \* the screen instance is mounted
    query,           \* useState('')
    books,           \* useState<Book[]>([])
    popularBooks,    \* useState<Book[]>([])
    loading,         \* useState(false)
    loadingPopular,  \* useState(true)
    errorPopular,    \* useState<string | null>(null)
    errorSearch,     \* useState<string | null>(null)
    timers,          \* pending setTimeout callbacks of the debounce effect: {[q, remaining]}
    searchCalls,     \* fetchBooks calls awaiting fetch: {[n, arg]}
    popularCalls,    \* fetchPopularBooks calls awaiting fetch: {[via, cancelled]}
    \* ---- history of the Search screen ----
    issued,          \* the search requests sent, in order: [q, elapsed, via]
    elapsed,         \* time since the last change of the text (capped)
    typed,           \* the text has been changed at least once
    burst,           \* every change of the text came < DEBOUNCE_MS after the one before
    everNonBlank,    \* some text entered so far had a non-empty trim
    lastSettled      \* what fetch did for the search call that settled last

searchVars ==
    <<mounted, query, books, popularBooks, loading, loadingPopular, errorPopular,
      errorSearch, timers, searchCalls, popularCalls>>
searchHistory ==
    <<issued, elapsed, typed, burst, everNonBlank, lastSettled>>

VARIABLES
    \* ---- BookDetailScreen (app/book/[id].tsx) ----
    detailMounted,   \* the screen instance is mounted
    params,          \* useLocalSearchParams(): [id, title, thumbnail]
    fetched,         \* useState<Book | null>(null)
    detailLoading,   \* useState(false)   (loading)
    fetchError,      \* useState<string | null>(null)
    lookupCalls,     \* fetchBookById calls awaiting fetch: {[n, via, cancelled]}
    lookupIssued,    \* history: the lookups sent, in order: [id, hasParams, via]
    lastLookup       \* history: the outcome of the lookup whose result is on
                     \* the screen, NoOutcome when none is

detailVars ==
    <<detailMounted, params, fetched, detailLoading, fetchError, lookupCalls,
      lookupIssued, lastLookup>>

vars == <<apiVars, searchVars, searchHistory, detailVars>>

-----------------------------------------------------------------------------
(* Values *)

Null == "null"            \* JavaScript null

\* ---- bounds ----
MaxStatus == 999          \* largest HTTP status code enumerated (three digits)
MaxSearchCalls == 2       \* search requests sent per screen instance
MaxLookups == 3           \* lookups sent per screen instance

\* ---- program constants ----
DEBOUNCE_MS == 400        \* setTimeout(() => fetchBooks(query), 400)

\* ---- user-facing messages (compared only for equality) ----
MSG_CONNECT == "Unable to connect. Check your internet connection and try again."
MSG_RATE == "Too many requests. Please try again in a moment."
MSG_SERVER == "Something went wrong on our end. Please try again later."
MSG_REQUEST_FAILED == "Request failed. Please check your connection and try again."
MSG_BOOK_NOT_LOADED == "Book could not be loaded. Please try again."
MSG_GENERIC == "Something went wrong. Please try again."
MSG_NOT_FOUND == "Book not found. It may have been removed or the link is invalid."

BOOKS_API_BASE == "https://www.googleapis.com/books/v1/volumes"

-----------------------------------------------------------------------------
(* String primitives *)

\* String.prototype.startsWith
StartsWith(s, p) == Len(s) >= Len(p) /\ SubSeq(s, 1, Len(p)) = p

\* String.prototype.includes
Includes(s, p) ==
    \E i \in 1..(Len(s) - Len(p) + 1) : SubSeq(s, i, i + Len(p) - 1) = p

DigitChar(d) ==
    CASE d = 0 -> "0" [] d = 1 -> "1" [] d = 2 -> "2" [] d = 3 -> "3"
      [] d = 4 -> "4" [] d = 5 -> "5" [] d = 6 -> "6" [] d = 7 -> "7"
      [] d = 8 -> "8" [] d = 9 -> "9"

\* `${res.status}`: the decimal digits of a number
RECURSIVE NumberToString(_)
NumberToString(n) ==
    IF n < 10 THEN <<DigitChar(n)>>
    ELSE NumberToString(n \div 10) \o <<DigitChar(n % 10)>>

\* String.prototype.trim (the only whitespace enumerated is the space)
RECURSIVE TrimStart(_)
TrimStart(s) ==
    IF s # <<>> /\ Head(s) = " " THEN TrimStart(Tail(s)) ELSE s

RECURSIVE TrimEnd(_)
TrimEnd(s) ==
    IF s # <<>> /\ s[Len(s)] = " " THEN TrimEnd(SubSeq(s, 1, Len(s) - 1)) ELSE s

Trim(s) == TrimEnd(TrimStart(s))

\* join the pieces of a sequence of sequences
RECURSIVE Concat(_)
Concat(ss) == IF ss = <<>> THEN <<>> ELSE Head(ss) \o Concat(Tail(ss))

-----------------------------------------------------------------------------
(* Exceptions *)

FETCH == <<"f", "e", "t", "c", "h">>
API_ERROR_PREFIX == <<"A", "P", "I", " ", "e", "r", "r", "o", "r", ":", " ">>
API_ERROR_429 == API_ERROR_PREFIX \o <<"4", "2", "9">>
API_ERROR_5 == API_ERROR_PREFIX \o <<"5">>
API_ERROR_4 == API_ERROR_PREFIX \o <<"4">>

\* messages of the TypeError a rejected fetch carries: Chromium, the
\* React Native fetch polyfill, WebKit
MsgFailedToFetch ==
    <<"F", "a", "i", "l", "e", "d", " ", "t", "o", " ", "f", "e", "t", "c", "h">>
MsgNetworkRequestFailed ==
    <<"N", "e", "t", "w", "o", "r", "k", " ", "r", "e", "q", "u", "e", "s", "t",
      " ", "f", "a", "i", "l", "e", "d">>
MsgLoadFailed == <<"L", "o", "a", "d", " ", "f", "a", "i", "l", "e", "d">>
\* reading .items of null
MsgNullItems ==
    <<"C", "a", "n", "n", "o", "t", " ", "r", "e", "a", "d", " ", "p", "r", "o",
      "p", "e", "r", "t", "y", " ", "'", "i", "t", "e", "m", "s", "'", " ", "o",
      "f", " ", "n", "u", "l", "l">>
\* res.json() on a body that is not JSON
MsgJsonParse ==
    <<"J", "S", "O", "N", " ", "P", "a", "r", "s", "e", " ", "e", "r", "r", "o",
      "r">>

Exception(kind, message) == [kind |-> kind, message |-> message]

\* e instanceof TypeError
InstanceOfTypeError(e) == e.kind = "TypeError"
\* e instanceof Error (TypeError and SyntaxError extend Error)
InstanceOfError(e) == e.kind \in {"Error", "TypeError", "SyntaxError"}

\* what a rejected fetch can carry: a connectivity TypeError, or a value
\* that is no Error at all
ConnectivityErrors ==
    { Exception("TypeError", m) :
        m \in {MsgFailedToFetch, MsgNetworkRequestFailed, MsgLoadFailed} }
NonError == Exception("NonError", <<>>)
RejectValues == ConnectivityErrors \cup {NonError}


NoException == Exception("none", <<>>)

-----------------------------------------------------------------------------
(* Error classifier *)

\* a plausible slip: the 4xx test placed before the 429 test
getApiErrorMessage_search_4first(error) ==
    IF InstanceOfTypeError(error) /\ Includes(error.message, FETCH)
    THEN MSG_CONNECT
    ELSE IF InstanceOfError(error) /\ StartsWith(error.message, API_ERROR_4)
    THEN MSG_REQUEST_FAILED
    ELSE IF InstanceOfError(error) /\ StartsWith(error.message, API_ERROR_429)
    THEN MSG_RATE
    ELSE IF InstanceOfError(error) /\ StartsWith(error.message, API_ERROR_5)
    THEN MSG_SERVER
    ELSE MSG_GENERIC

\* getApiErrorMessage of app/search.tsx
getApiErrorMessage_search(error) ==
    IF InstanceOfTypeError(error) /\ Includes(error.message, FETCH)
    THEN MSG_CONNECT
    ELSE IF InstanceOfError(error) /\ StartsWith(error.message, API_ERROR_429)
    THEN MSG_RATE
    ELSE IF InstanceOfError(error) /\ StartsWith(error.message, API_ERROR_5)
    THEN MSG_SERVER
    ELSE IF InstanceOfError(error) /\ StartsWith(error.message, API_ERROR_4)
    THEN MSG_REQUEST_FAILED
    ELSE MSG_GENERIC

\* getApiErrorMessage of app/book/[id].tsx
getApiErrorMessage_book(error) ==
    IF InstanceOfTypeError(error) /\ Includes(error.message, FETCH)
    THEN MSG_CONNECT
    ELSE IF InstanceOfError(error) /\ StartsWith(error.message, API_ERROR_429)
    THEN MSG_RATE
    ELSE IF InstanceOfError(error) /\ StartsWith(error.message, API_ERROR_5)
    THEN MSG_SERVER
    ELSE IF InstanceOfError(error) /\ StartsWith(error.message, API_ERROR_4)
    THEN MSG_BOOK_NOT_LOADED
    ELSE MSG_GENERIC

-----------------------------------------------------------------------------
(* What fetch can do *)

\* a JSON body: unparsable text, null, or an object whose items field is
\* absent, null or a list of Book records
Json(j, itemsKind, items) == [j |-> j, itemsKind |-> itemsKind, items |-> items]
Unparsable == Json("unparsable", "absent", <<>>)
JsonNull == Json("null", "absent", <<>>)
Book1 == [id |-> "1"]
Book2 == [id |-> "2"]
JsonObjects ==
    { Json("object", "absent", <<>>), Json("object", "null", <<>>),
      Json("object", "list", <<>>), Json("object", "list", <<Book1>>),
      Json("object", "list", <<Book1, Book2>>) }
Bodies == {Unparsable, JsonNull} \cup JsonObjects

\* HTTP status codes are three digits; 0 is the status of an error response
StatusCodes == {0} \cup (100..MaxStatus)

Rejected(e) == [t |-> "reject", err |-> e, status |-> 0, body |-> Unparsable]
Response(s, b) == [t |-> "response", err |-> NoException, status |-> s, body |-> b]

\* res.ok
Ok(res) == res.status >= 200 /\ res.status <= 299

\* the body of an error response: not JSON, or a JSON object describing
\* the error
ErrorBodies == {Unparsable, Json("object", "absent", <<>>)}

Outcomes ==
    { Rejected(e) : e \in RejectValues }
    \cup { Response(s, b) : s \in {c \in StatusCodes : c >= 200 /\ c <= 299}, b \in Bodies }
    \cup { Response(s, b) : s \in {c \in StatusCodes : c < 200 \/ c > 299},
                             b \in ErrorBodies }

NoOutcome == [t |-> "none", err |-> NoException, status |-> 0, body |-> Unparsable]

Throw(e) == [threw |-> TRUE, value |-> Unparsable, error |-> e]
Return(v) == [threw |-> FALSE, value |-> v, error |-> NoException]

\* a plausible slip: no test of res.ok
FetchJson_noOkTest(outcome) ==
    IF outcome.t = "reject" THEN Throw(outcome.err)
    ELSE IF outcome.body.j = "unparsable"
    THEN Throw(Exception("SyntaxError", MsgJsonParse))
    ELSE Return(outcome.body)

\* const res = await fetch(url);
\* if (!res.ok) throw new Error(`API error: ${res.status}`);
\* const data = await res.json();
FetchJson(outcome) ==
    IF outcome.t = "reject" THEN Throw(outcome.err)
    ELSE IF ~Ok(outcome)
    THEN Throw(Exception("Error", API_ERROR_PREFIX \o NumberToString(outcome.status)))
    ELSE IF outcome.body.j = "unparsable"
    THEN Throw(Exception("SyntaxError", MsgJsonParse))
    ELSE Return(outcome.body)

\* data.items ?? []   (data.items throws a TypeError when data is null)
ItemsOrEmpty(r) ==
    IF r.threw THEN r
    ELSE IF r.value.j = "null" THEN Throw(Exception("TypeError", MsgNullItems))
    ELSE IF r.value.itemsKind = "list" THEN Return(r.value.items)
    ELSE Return(<<>>)

-----------------------------------------------------------------------------
(* URLs *)

ApiKey(isSet, value) == [isSet |-> isSet, value |-> value]
NoApiKey == ApiKey(FALSE, <<>>)
ApiKeys == {NoApiKey, ApiKey(TRUE, <<>>), ApiKey(TRUE, <<"K">>)}
\* BOOKS_API_KEY as a condition: undefined and '' are falsy
Truthy(key) == key.isSet /\ key.value # <<>>

\* application/x-www-form-urlencoded serialisation of one character
FormEncodeChar(c) ==
    CASE c = " " -> <<"+">>
      [] c = ":" -> <<"%", "3", "A">>
      [] c = "/" -> <<"%", "2", "F">>
      [] OTHER -> <<c>>

\* encodeURIComponent of one character
UriEncodeChar(c) ==
    CASE c = " " -> <<"%", "2", "0">>
      [] c = ":" -> <<"%", "3", "A">>
      [] c = "/" -> <<"%", "2", "F">>
      [] OTHER -> <<c>>

FormEncode(s) == Concat([i \in 1..Len(s) |-> FormEncodeChar(s[i])])
encodeURIComponent(s) == Concat([i \in 1..Len(s) |-> UriEncodeChar(s[i])])

\* URLSearchParams.toString of a list of <<name, value>> pairs
RECURSIVE ParamsToString(_)
ParamsToString(ps) ==
    IF ps = <<>> THEN <<>>
    ELSE FormEncode(ps[1][1]) \o <<"=">> \o FormEncode(ps[1][2])
         \o (IF Len(ps) > 1 THEN <<"&">> ELSE <<>>) \o ParamsToString(Tail(ps))

\* ...(BOOKS_API_KEY && { key: BOOKS_API_KEY })
KeyParam(key) == IF Truthy(key) THEN << <<(<<"key">>), key.value>> >> ELSE <<>>

PopularUrl(key) ==
    <<BOOKS_API_BASE, "?">>
    \o ParamsToString(<< <<(<<"q">>), <<"subject", ":", "fiction">> >>,
                         <<(<<"orderBy">>), <<"relevance">> >>,
                         <<(<<"maxResults">>), <<"1", "5">> >> >> \o KeyParam(key))

SearchUrl(q, key) ==
    <<BOOKS_API_BASE, "?">>
    \o ParamsToString(<< <<(<<"q">>), Trim(q)>>,
                         <<(<<"maxResults">>), <<"2", "0">> >> >> \o KeyParam(key))

\* `${BOOKS_API_BASE}/${encodeURIComponent(id)}?${params}`
BookUrl(id, key) ==
    <<BOOKS_API_BASE, "/">> \o encodeURIComponent(id) \o <<"?">>
    \o ParamsToString(KeyParam(key))

-----------------------------------------------------------------------------
(* Client functions: the pair each resolves with *)

fetchPopularBooks(outcome) ==
    LET r == ItemsOrEmpty(FetchJson(outcome)) IN
    IF r.threw
    THEN [data |-> <<>>, error |-> getApiErrorMessage_search(r.error)]
    ELSE [data |-> r.value, error |-> Null]

\* SearchScreen.fetchBooks, as the values it hands to setBooks and
\* setErrorSearch: error is Null when the call sets no error (it cleared
\* errorSearch when it started)
fetchBooks(outcome) ==
    LET r == ItemsOrEmpty(FetchJson(outcome)) IN
    IF r.threw
    THEN [data |-> <<>>, error |-> getApiErrorMessage_search(r.error)]
    ELSE [data |-> r.value, error |-> Null]

fetchBookById(outcome) ==
    LET r == FetchJson(outcome) IN
    IF r.threw
    THEN [book |-> JsonNull, error |-> getApiErrorMessage_book(r.error)]
    ELSE [book |-> r.value, error |-> Null]


-----------------------------------------------------------------------------
(* Inputs *)

\* the texts of the search box: empty, blank, and texts whose trims are
\* "a" and "aa"
Texts == {<<>>, <<" ">>, <<"a">>, <<"a", " ">>, <<" ", "a">>, <<"a", "a">>}

\* book ids, plain and in need of encoding
Ids == {<<"1", "2", "3">>, <<"a", "/", "b">>, <<"x", " ">>, <<"7">>}

\* the elapsed time between two events, and where the clock since the last
\* text change stops
Steps == {200}
MaxElapsed == DEBOUNCE_MS + 200

\* what fetch does for the calls of a screen: a server error, a successful
\* body without items, a successful list
ScreenOutcomes ==
    { Response(500, Unparsable),
      Response(200, Json("object", "absent", <<>>)),
      Response(200, Json("object", "list", <<Book1>>)) }

Min(a, b) == IF a < b THEN a ELSE b

-----------------------------------------------------------------------------
(* Client functions called directly *)

NoCall == [fn |-> "none", arg |-> <<>>]
NoResult == [data |-> <<>>, error |-> Null]

ApiInit ==
    /\ apiCall = NoCall
    /\ apiOutcome = Rejected(NonError)
    /\ apiUrl = <<>>
    /\ apiResult = NoResult

CallFetchPopularBooks ==
    /\ apiCall = NoCall
    /\ \E o \in Outcomes :
        /\ apiCall' = [fn |-> "fetchPopularBooks", arg |-> <<>>]
        /\ apiOutcome' = o
        /\ apiUrl' = PopularUrl(BOOKS_API_KEY)
        /\ apiResult' = fetchPopularBooks(o)
        /\ UNCHANGED <<BOOKS_API_KEY, searchVars, searchHistory, detailVars>>

CallFetchBooks ==
    /\ apiCall = NoCall
    /\ \E q \in Texts, o \in Outcomes :
        /\ apiCall' = [fn |-> "fetchBooks", arg |-> q]
        /\ apiOutcome' = o
        /\ apiUrl' = SearchUrl(q, BOOKS_API_KEY)
        /\ apiResult' = fetchBooks(o)
        /\ UNCHANGED <<BOOKS_API_KEY, searchVars, searchHistory, detailVars>>

CallFetchBookById ==
    /\ apiCall = NoCall
    /\ \E id \in Ids, o \in Outcomes :
        /\ apiCall' = [fn |-> "fetchBookById", arg |-> id]
        /\ apiOutcome' = o
        /\ apiUrl' = BookUrl(id, BOOKS_API_KEY)
        /\ apiResult' = fetchBookById(o)
        /\ UNCHANGED <<BOOKS_API_KEY, searchVars, searchHistory, detailVars>>


-----------------------------------------------------------------------------
(* SearchScreen *)

\* the state right after the screen has mounted and its effects have run:
\* the popular-books effect has sent its request, the debounce effect has
\* seen the empty query
SearchInit ==
    /\ mounted = TRUE
    /\ query = <<>>
    /\ books = <<>>
    /\ popularBooks = <<>>
    /\ loading = FALSE
    /\ loadingPopular = TRUE
    /\ errorPopular = Null
    /\ errorSearch = Null
    /\ timers = {}
    /\ searchCalls = {}
    /\ popularCalls = {[via |-> "effect", cancelled |-> FALSE]}
    /\ issued = <<>>
    /\ elapsed = 0
    /\ typed = FALSE
    /\ burst = TRUE
    /\ everNonBlank = FALSE
    /\ lastSettled = NoOutcome

\* a plausible slip: the timeout is half the intended one
DebounceTimer_short(q) == [q |-> q, remaining |-> DEBOUNCE_MS \div 2]

\* setTimeout(() => fetchBooks(query), 400)
DebounceTimer(q) == [q |-> q, remaining |-> DEBOUNCE_MS]

\* a plausible slip: the debounce effect returns no cleanup, so a timeout
\* armed for an earlier text is never cleared
DebounceCleanup_none(ts, q) == ts

\* return () => clearTimeout(timer): the cleanup of the effect run for text q
DebounceCleanup(ts, q) == { tm \in ts : tm.q # q }

\* a plausible slip: no test of query.trim()
DebounceEffect_noTrimTest(ts, bs, q) ==
    [timers |-> ts \cup {DebounceTimer(q)}, books |-> bs]

\* the body of the debounce effect for text q: the timers and books it leaves
DebounceEffect(ts, bs, q) ==
    IF Trim(q) = <<>>
    THEN [timers |-> ts, books |-> <<>>]
    ELSE [timers |-> ts \cup {DebounceTimer(q)}, books |-> bs]

\* setQuery(t) with t another text: the render, the cleanup of the previous
\* run of the debounce effect, then its new run
SetQuery(t) ==
    LET eff == DebounceEffect(DebounceCleanup(timers, query), books, t) IN
    /\ query' = t
    /\ timers' = eff.timers
    /\ books' = eff.books
    /\ elapsed' = 0
    /\ typed' = TRUE
    /\ burst' = IF typed THEN burst /\ elapsed < DEBOUNCE_MS ELSE TRUE
    /\ everNonBlank' = (everNonBlank \/ Trim(t) # <<>>)
    /\ UNCHANGED <<mounted, popularBooks, loading, loadingPopular, errorPopular,
                   errorSearch, searchCalls, popularCalls, issued,
                   lastSettled>>
    /\ UNCHANGED <<apiVars, detailVars>>

\* onChangeText={setQuery}
Keystroke ==
    /\ mounted
    /\ \E t \in Texts \ {query} : SetQuery(t)

\* the clear button: onPress={() => setQuery('')}, shown when query.length > 0
ClearPress ==
    /\ mounted
    /\ Len(query) > 0
    /\ SetQuery(<<>>)

\* time passes; a timeout that is due runs before more time passes
Tick ==
    \E d \in Steps :
        /\ \A tm \in timers : d <= tm.remaining
        /\ timers' = { [tm EXCEPT !.remaining = tm.remaining - d] : tm \in timers }
        /\ elapsed' = IF typed /\ mounted THEN Min(elapsed + d, MaxElapsed)
                       ELSE elapsed
        /\ UNCHANGED <<mounted, query, books, popularBooks, loading, loadingPopular,
                       errorPopular, errorSearch, searchCalls, popularCalls, issued, typed, burst, everNonBlank, lastSettled>>
        /\ UNCHANGED <<apiVars, detailVars>>

\* fetchBooks(q) up to its await fetch(url)
FetchBooksStart(q, via) ==
    /\ errorSearch' = Null
    /\ loading' = TRUE
    /\ searchCalls' = searchCalls \cup {[n |-> Len(issued) + 1, arg |-> q]}
    /\ issued' = Append(issued, [q |-> Trim(q), elapsed |-> elapsed, via |-> via])

\* the timeout callback: () => fetchBooks(query), query being the text of
\* the render that armed it
TimerFire ==
    \E tm \in timers :
        /\ tm.remaining = 0
        /\ Len(issued) < MaxSearchCalls
        /\ timers' = timers \ {tm}
        /\ FetchBooksStart(tm.q, "debounce")
        /\ UNCHANGED <<mounted, query, books, popularBooks, loadingPopular,
                       errorPopular, popularCalls, elapsed, typed,
                       burst, everNonBlank, lastSettled>>
        /\ UNCHANGED <<apiVars, detailVars>>

\* the error view of the result list is on screen
SearchErrorShown ==
    /\ ~loading
    /\ Trim(query) # <<>>
    /\ books = <<>>
    /\ errorSearch # Null

\* Try again of the search error view: onPress={() => fetchBooks(query)}
RetryPress ==
    /\ mounted
    /\ SearchErrorShown
    /\ Len(issued) < MaxSearchCalls
    /\ FetchBooksStart(query, "retry")
    /\ UNCHANGED <<mounted, query, books, popularBooks, loadingPopular, errorPopular,
                   timers, popularCalls, elapsed, typed, burst,
                   everNonBlank, lastSettled>>
    /\ UNCHANGED <<apiVars, detailVars>>

\* a plausible slip: a failed search sent again by its catch block
IssuedAfterSettle_autoRetry(c, r) ==
    IF r.error # Null
    THEN Append(issued, [q |-> Trim(c.arg), elapsed |-> elapsed, via |-> "retry"])
    ELSE issued

\* the requests sent once call c has settled with result r: the try, catch
\* and finally blocks of fetchBooks send nothing
IssuedAfterSettle(c, r) == issued

\* a plausible slip: setLoading(false) as the last statement of the try
\* block, not in a finally block
LoadingAfterSettle_noFinally(r) == IF r.error # Null THEN loading ELSE FALSE

\* finally { setLoading(false); }
LoadingAfterSettle(r) == FALSE

\* fetchBooks from the settling of its fetch to its finally block
SearchSettle ==
    \E c \in searchCalls, o \in ScreenOutcomes :
        LET r == fetchBooks(o) IN
        /\ searchCalls' = searchCalls \ {c}
        /\ books' = r.data
        /\ errorSearch' = IF r.error # Null THEN r.error ELSE errorSearch
        /\ loading' = LoadingAfterSettle(r)
        /\ lastSettled' = o
        /\ issued' = IssuedAfterSettle(c, r)
        /\ UNCHANGED <<mounted, query, popularBooks, loadingPopular, errorPopular,
                       timers, popularCalls>>
        /\ UNCHANGED <<elapsed, typed, burst, everNonBlank>>
        /\ UNCHANGED <<apiVars, detailVars>>

\* a plausible slip: the mount effect's continuations without their
\* if (!cancelled) tests
PopularApplies_noFlag(c) == TRUE

\* the continuations of popular call c update the state: the mount effect's
\* test its cancelled flag, loadPopularBooks's have none to test
PopularApplies(c) == c.via = "retry" \/ ~c.cancelled

\* the .then and .finally of a fetchPopularBooks call
PopularSettle ==
    \E c \in popularCalls, o \in ScreenOutcomes :
        LET r == fetchPopularBooks(o)
            applies == PopularApplies(c) IN
        /\ popularCalls' = popularCalls \ {c}
        /\ popularBooks' = IF applies THEN r.data ELSE popularBooks
        /\ errorPopular' = IF applies THEN r.error ELSE errorPopular
        /\ loadingPopular' = IF applies THEN FALSE ELSE loadingPopular
        /\ UNCHANGED <<mounted, query, books, loading, errorSearch, timers,
                       searchCalls>>
        /\ UNCHANGED <<searchHistory, apiVars, detailVars>>

\* the error view of the popular list is on screen
PopularErrorShown ==
    /\ ~loading
    /\ Trim(query) = <<>>
    /\ ~loadingPopular
    /\ errorPopular # Null

\* Try again of the popular error view: loadPopularBooks
PopularRetryPress ==
    /\ mounted
    /\ PopularErrorShown
    /\ errorPopular' = Null
    /\ loadingPopular' = TRUE
    /\ popularCalls' =
           popularCalls \cup {[via |-> "retry", cancelled |-> FALSE]}
    /\ UNCHANGED <<mounted, query, books, popularBooks, loading, errorSearch,
                   timers, searchCalls, issued, elapsed, typed, burst, everNonBlank, lastSettled>>
    /\ UNCHANGED <<apiVars, detailVars>>

\* a plausible slip: the debounce effect returns no cleanup
UnmountTimers_kept == timers

\* the timeouts left by the debounce effect's cleanup at teardown
UnmountTimers == DebounceCleanup(timers, query)

\* the screen is torn down: the effects' cleanups run (cancelled = true,
\* clearTimeout(timer))
Unmount ==
    /\ mounted
    /\ mounted' = FALSE
    /\ timers' = UnmountTimers
    /\ popularCalls' =
           { IF c.via = "effect" THEN [c EXCEPT !.cancelled = TRUE] ELSE c :
               c \in popularCalls }
    /\ UNCHANGED <<query, books, popularBooks, loading, loadingPopular,
                   errorPopular, errorSearch, searchCalls>>
    /\ UNCHANGED <<searchHistory, apiVars, detailVars>>


-----------------------------------------------------------------------------
(* BookDetailScreen *)

\* navigation parameters: an absent parameter and '' are both falsy, and
\* both are the empty text here
Titles == {<<>>, <<"T">>}
Thumbnails == {<<>>, <<"U">>}
ParamSets ==
    [id : Ids \cup {<<>>}, title : Titles, thumbnail : Thumbnails]

\* const hasParams = Boolean(params.title || params.thumbnail)
hasParams(p) == p.title # <<>> \/ p.thumbnail # <<>>

\* a plausible slip: the effect without its hasParams test
LookupEffectRuns_noParamsTest(p) == p.id # <<>>

\* the lookup effect goes past its two early returns
LookupEffectRuns(p) == p.id # <<>> /\ ~hasParams(p)

\* loadBook goes past its early return
LoadBookRuns(p) == ~(p.id = <<>> \/ hasParams(p))

\* the state right after the screen has mounted with parameters p and its
\* effect has run
DetailInit ==
    \E p \in ParamSets :
        /\ detailMounted = TRUE
        /\ params = p
        /\ fetched = JsonNull
        /\ fetchError = Null
        /\ detailLoading = LookupEffectRuns(p)
        /\ lookupCalls =
               IF LookupEffectRuns(p)
               THEN {[n |-> 1, via |-> "effect", cancelled |-> FALSE]}
               ELSE {}
        /\ lookupIssued =
               IF LookupEffectRuns(p)
               THEN <<[id |-> p.id, hasParams |-> hasParams(p), via |-> "effect"]>>
               ELSE <<>>
        /\ lastLookup = NoOutcome

\* a plausible slip: the error handed on as it came, no message for a
\* lookup that found nothing
LookupApplied_noNotFound(r) == [fetched |-> r.book, fetchError |-> r.error]

\* setFetched(book ?? null);
\* setFetchError(error ?? (book ? null : 'Book not found. ...'))
LookupApplied(r) ==
    [fetched |-> r.book,
     fetchError |-> IF r.error # Null THEN r.error
                    ELSE IF r.book.j = "object" THEN Null ELSE MSG_NOT_FOUND]

\* the continuations of lookup call c update the state: the effect's test
\* its cancelled flag, loadBook's have none to test
LookupApplies(c) == c.via = "retry" \/ ~c.cancelled

\* the .then and .finally of a fetchBookById call
LookupSettle ==
    \E c \in lookupCalls, o \in ScreenOutcomes \cup {Response(200, JsonNull)} :
        LET a == LookupApplied(fetchBookById(o))
            applies == LookupApplies(c) IN
        /\ lookupCalls' = lookupCalls \ {c}
        /\ fetched' = IF applies THEN a.fetched ELSE fetched
        /\ fetchError' = IF applies THEN a.fetchError ELSE fetchError
        /\ detailLoading' = IF applies THEN FALSE ELSE detailLoading
        /\ lastLookup' = IF applies THEN o ELSE lastLookup
        /\ UNCHANGED <<detailMounted, params, lookupIssued>>
        /\ UNCHANGED <<apiVars, searchVars, searchHistory>>

\* the error view with its Try again button is on screen
DetailErrorShown ==
    /\ params.id # <<>>
    /\ ~(~hasParams(params) /\ detailLoading)
    /\ ~hasParams(params)
    /\ fetchError # Null

\* Try again: onPress={loadBook}
DetailRetryPress ==
    /\ detailMounted
    /\ DetailErrorShown
    /\ Len(lookupIssued) < MaxLookups
    /\ IF LoadBookRuns(params)
       THEN /\ fetchError' = Null
            /\ detailLoading' = TRUE
            /\ lookupCalls' =
                   lookupCalls \cup {[n |-> Len(lookupIssued) + 1, via |-> "retry",
                                      cancelled |-> FALSE]}
            /\ lookupIssued' =
                   Append(lookupIssued, [id |-> params.id,
                                         hasParams |-> hasParams(params),
                                         via |-> "retry"])
            /\ lastLookup' = NoOutcome
       ELSE UNCHANGED <<fetchError, detailLoading, lookupCalls, lookupIssued,
                        lastLookup>>
    /\ UNCHANGED <<detailMounted, params, fetched>>
    /\ UNCHANGED <<apiVars, searchVars, searchHistory>>

\* the screen is torn down: the effect's cleanup runs (cancelled = true)
DetailUnmount ==
    /\ detailMounted
    /\ detailMounted' = FALSE
    /\ lookupCalls' =
           { IF c.via = "effect" THEN [c EXCEPT !.cancelled = TRUE] ELSE c :
               c \in lookupCalls }
    /\ UNCHANGED <<params, fetched, detailLoading, fetchError, lookupIssued,
                   lastLookup>>
    /\ UNCHANGED <<apiVars, searchVars, searchHistory>>

-----------------------------------------------------------------------------
(* Specifications *)

\* a screen that is not the subject of a specification is not on screen
SearchAbsent ==
    /\ mounted = FALSE
    /\ query = <<>>
    /\ books = <<>>
    /\ popularBooks = <<>>
    /\ loading = FALSE
    /\ loadingPopular = TRUE
    /\ errorPopular = Null
    /\ errorSearch = Null
    /\ timers = {}
    /\ searchCalls = {}
    /\ popularCalls = {}
    /\ issued = <<>>
    /\ elapsed = 0
    /\ typed = FALSE
    /\ burst = TRUE
    /\ everNonBlank = FALSE
    /\ lastSettled = NoOutcome

DetailAbsent ==
    /\ detailMounted = FALSE
    /\ params = [id |-> <<>>, title |-> <<>>, thumbnail |-> <<>>]
    /\ fetched = JsonNull
    /\ detailLoading = FALSE
    /\ fetchError = Null
    /\ lookupCalls = {}
    /\ lookupIssued = <<>>
    /\ lastLookup = NoOutcome

\* the Search screen
Init ==
    /\ BOOKS_API_KEY = NoApiKey
    /\ ApiInit
    /\ SearchInit
    /\ DetailAbsent

Next ==
    \/ Keystroke
    \/ ClearPress
    \/ Tick
    \/ TimerFire
    \/ RetryPress
    \/ SearchSettle
    \/ PopularSettle
    \/ PopularRetryPress
    \/ Unmount

Spec == Init /\ [][Next]_vars

\* the Detail screen
InitDetail ==
    /\ BOOKS_API_KEY = NoApiKey
    /\ ApiInit
    /\ SearchAbsent
    /\ DetailInit

NextDetail ==
    \/ LookupSettle
    \/ DetailRetryPress
    \/ DetailUnmount

SpecDetail == InitDetail /\ [][NextDetail]_vars

\* the client functions, called directly with every outcome of fetch
InitApi ==
    /\ BOOKS_API_KEY \in ApiKeys
    /\ ApiInit
    /\ SearchAbsent
    /\ DetailAbsent

NextApi ==
    \/ CallFetchPopularBooks
    \/ CallFetchBooks
    \/ CallFetchBookById

SpecApi == InitApi /\ [][NextApi]_vars

\* the Search screen when every fetch that was started settles: a promise
\* returned by fetch resolves or rejects, and its continuation is then run
\* by the event loop whatever else the screen does
SpecSettling == Spec /\ WF_vars(SearchSettle)

\* either screen, on its own
InitScreens ==
    /\ BOOKS_API_KEY = NoApiKey
    /\ ApiInit
    /\ \/ SearchInit /\ DetailAbsent
       \/ SearchAbsent /\ DetailInit

NextScreens ==
    \/ Next
    \/ NextDetail

SpecScreens == InitScreens /\ [][NextScreens]_vars


-----------------------------------------------------------------------------
(* Properties of the Search screen (Spec) *)

\* a step in which search call c settles
Settles(c) == c \in searchCalls /\ c \notin searchCalls'

\* C1: a search call issued for one query that settles while the trimmed
\* text of the search box is another applies nothing to books, errorSearch
\* or loading.
C1_StaleResponseDiscarded ==
    [][\A c \in searchCalls :
          (Settles(c) /\ Trim(c.arg) # Trim(query))
              => UNCHANGED <<books, errorSearch, loading>>]_vars

\* no Try again has been pressed on the search error view
NoRetry == \A i \in 1..Len(issued) : issued[i].via = "debounce"

\* C2: while every change of the text has come less than 400 after the one
\* before and the text is not blank, no search request is sent until 400
\* after the last change; then exactly one is sent, at 400, and it carries
\* the trimmed text.
C2_Debounce ==
    (mounted /\ typed /\ burst /\ NoRetry /\ Trim(query) # <<>>)
        => \/ /\ issued = <<>>
              /\ elapsed <= DEBOUNCE_MS
              /\ timers = {[q |-> query, remaining |-> DEBOUNCE_MS - elapsed]}
           \/ /\ timers = {}
              /\ issued = <<[q |-> Trim(query), elapsed |-> DEBOUNCE_MS,
                             via |-> "debounce"]>>

\* C2 witness: the burst ended on the text " a", the window passed and the
\* one request for "a" has been sent.
C2_Witness ==
    /\ mounted /\ typed /\ burst
    /\ query = <<" ", "a">>
    /\ elapsed > DEBOUNCE_MS
    /\ Len(issued) = 1
    /\ issued[1].q = <<"a">>

\* C3: once the screen is torn down, a search call that resolves or rejects
\* changes none of books, errorSearch, loading.
C3_NoUpdateAfterTeardown ==
    [][~mounted => UNCHANGED <<books, errorSearch, loading>>]_vars

\* C4: every search request sent, by the timeout or by Try again, carries
\* a query that is not empty after trimming; while only empty or blank
\* text has been entered, no request has been sent.
C4_BlankNeverDispatched ==
    /\ \A i \in 1..Len(issued) : issued[i].q # <<>>
    /\ \A c \in searchCalls : Trim(c.arg) # <<>>
    /\ ~everNonBlank => issued = <<>>

\* C4 witness: blank text was entered, the window has passed, nothing was
\* sent.
C4_Witness ==
    /\ typed
    /\ ~everNonBlank
    /\ query = <<" ">>
    /\ elapsed >= DEBOUNCE_MS
    /\ issued = <<>>

\* the body of a successful search response has an empty items list or none
EmptySuccess(o) ==
    /\ o.t = "response"
    /\ Ok(o)
    /\ o.body.j = "object"
    /\ (o.body.itemsKind = "list" => o.body.items = <<>>)

\* C8: when a search call settles with a successful response whose body
\* has an empty items list or no items field, the screen is left with the
\* empty book list and no error.
C8_EmptySuccessIsNoResults ==
    [][(\E c \in searchCalls : Settles(c)) /\ EmptySuccess(lastSettled')
           => books' = <<>> /\ errorSearch' = Null]_vars

-----------------------------------------------------------------------------
(* Properties of the client functions (SpecApi) *)

Called == apiCall.fn # "none"
HttpFailure == Called /\ apiOutcome.t = "response" /\ ~Ok(apiOutcome)

\* the 4xx message of a call site
ClientErrorMessage(fn) ==
    IF fn = "fetchBookById" THEN MSG_BOOK_NOT_LOADED ELSE MSG_REQUEST_FAILED

\* the decision table for a status, on numbers
TableMessage(status, fn) ==
    IF status = 429 THEN MSG_RATE
    ELSE IF status >= 500 /\ status < 600 THEN MSG_SERVER
    ELSE IF status >= 400 /\ status < 500 THEN ClientErrorMessage(fn)
    ELSE MSG_GENERIC

\* C5: for every status that is not a success the message is the rate
\* message for 429, the server message for 500..599, the call site's client
\* message for the other 400..499, and the generic message otherwise; a
\* rejection with a value that is no Error and an unparsable body give the
\* generic message.
C5_ErrorTable ==
    /\ HttpFailure => apiResult.error = TableMessage(apiOutcome.status, apiCall.fn)
    /\ (Called /\ apiOutcome.t = "reject" /\ apiOutcome.err = NonError)
           => apiResult.error = MSG_GENERIC
    /\ (Called /\ apiOutcome.t = "response" /\ Ok(apiOutcome)
            /\ apiOutcome.body = Unparsable)
           => apiResult.error = MSG_GENERIC

\* C5 witness: a lookup answered 429 got the rate message.
C5_Witness ==
    /\ apiCall.fn = "fetchBookById"
    /\ apiOutcome.t = "response"
    /\ apiOutcome.status = 429
    /\ apiResult.error = MSG_RATE

\* C6: every connectivity exception of fetch, whatever its message, is
\* classified as the connectivity message, at both call sites.
C6_ConnectivityAlwaysClassified ==
    (Called /\ apiOutcome.t = "reject" /\ apiOutcome.err \in ConnectivityErrors)
        => apiResult.error = MSG_CONNECT

Messages(fn) ==
    {MSG_CONNECT, MSG_RATE, MSG_SERVER, ClientErrorMessage(fn), MSG_GENERIC}

ListCall == apiCall.fn \in {"fetchBooks", "fetchPopularBooks"}
LookupCall == apiCall.fn = "fetchBookById"

\* fetch rejected, the status is not 2xx, or the body does not parse
Failed ==
    \/ apiOutcome.t = "reject"
    \/ ~Ok(apiOutcome)
    \/ apiOutcome.body = Unparsable

\* the items of a parsed body, the empty list when it has none
Content(body) == IF body.itemsKind = "list" THEN body.items ELSE <<>>

\* C7 as stated: on a 2xx response whose body parses the payload is the
\* response content and the error is null; on any failure the payload is
\* the empty list (null for the lookup) and the error is one of the
\* classifier's messages.
C7_ResultPairAsStated ==
    /\ (ListCall /\ ~Failed)
           => apiResult.data = Content(apiOutcome.body) /\ apiResult.error = Null
    /\ (LookupCall /\ ~Failed)
           => apiResult.book = apiOutcome.body /\ apiResult.error = Null
    /\ (ListCall /\ Failed)
           => apiResult.data = <<>> /\ apiResult.error \in Messages(apiCall.fn)
    /\ (LookupCall /\ Failed)
           => apiResult.book = JsonNull /\ apiResult.error \in Messages(apiCall.fn)

\* C7 amended: as stated, for a 2xx body that parses to an object; a 2xx
\* body that parses to null makes the search and popular calls fail with
\* the generic message, and the lookup resolve with a null book and a null
\* error.
C7_ResultPair ==
    /\ (ListCall /\ ~Failed /\ apiOutcome.body.j = "object")
           => apiResult.data = Content(apiOutcome.body) /\ apiResult.error = Null
    /\ (ListCall /\ ~Failed /\ apiOutcome.body = JsonNull)
           => apiResult.data = <<>> /\ apiResult.error = MSG_GENERIC
    /\ (LookupCall /\ ~Failed)
           => apiResult.book = apiOutcome.body /\ apiResult.error = Null
    /\ (ListCall /\ Failed)
           => apiResult.data = <<>> /\ apiResult.error \in Messages(apiCall.fn)
    /\ (LookupCall /\ Failed)
           => apiResult.book = JsonNull /\ apiResult.error \in Messages(apiCall.fn)

\* C7 witness: a popular call answered 200 with the body null resolved with
\* the empty list and the generic message.
C7_Witness ==
    /\ apiCall.fn = "fetchPopularBooks"
    /\ apiOutcome.t = "response"
    /\ Ok(apiOutcome)
    /\ apiOutcome.body = JsonNull
    /\ apiResult.data = <<>>
    /\ apiResult.error = MSG_GENERIC

\* C9: without an API key, the URL of fetchBookById(id) is the base URL,
\* "/" and the encoded id, and nothing more.
C9_BookUrlWithoutKey ==
    (LookupCall /\ ~Truthy(BOOKS_API_KEY))
        => apiUrl = <<BOOKS_API_BASE, "/">> \o encodeURIComponent(apiCall.arg)

-----------------------------------------------------------------------------
(* Properties of the Detail screen (SpecDetail) *)

\* the navigation parameters carry a title or a thumbnail
CarriesBookFields == params.title # <<>> \/ params.thumbnail # <<>>

\* C10: with a title or thumbnail in the parameters no lookup is ever sent;
\* a lookup is sent only with an id and without those parameters, and then
\* exactly one is sent by the mount effect, before any retry.
C10_NetworkBypass ==
    /\ CarriesBookFields => lookupIssued = <<>>
    /\ params.id = <<>> => lookupIssued = <<>>
    /\ (params.id # <<>> /\ ~CarriesBookFields)
           => /\ Len(lookupIssued) >= 1
              /\ lookupIssued[1].via = "effect"
              /\ lookupIssued[1].id = params.id
              /\ \A i \in 2..Len(lookupIssued) : lookupIssued[i].via = "retry"

\* C10 witness: a screen that came with an id and a title has been torn
\* down without ever sending a lookup.
C10_Witness ==
    /\ params.id # <<>>
    /\ params.title # <<>>
    /\ ~detailMounted
    /\ lookupIssued = <<>>

\* C11: on the Search screen books is never non-empty while errorSearch is
\* non-null.
C11_NotBothPopulated == ~(books # <<>> /\ errorSearch # Null)

\* C14: at most one debounce timeout is pending in any reachable state, and
\* a keystroke that makes the text empty or blank leaves, right after it,
\* books empty and no timeout pending.
C14_KeystrokeCancelsTimer ==
    /\ [](Cardinality(timers) <= 1)
    /\ [][(query' # query /\ Trim(query') = <<>>)
             => (books' = <<>> /\ timers' = {})]_vars

\* a non-blank text was typed and, before its timeout ran, keystrokes made
\* the text blank: nothing is pending and nothing was sent
C14_Witness ==
    /\ mounted
    /\ typed
    /\ burst
    /\ everNonBlank
    /\ query = <<" ">>
    /\ timers = {}
    /\ books = <<>>
    /\ issued = <<>>

\* C15: a keystroke that changes the trimmed text leaves errorSearch null:
\* the message produced for the earlier query does not outlive it.
C15_ErrorDoesNotOutliveQuery ==
    [][(query' # query /\ Trim(query') # Trim(query))
          => errorSearch' = Null]_vars

\* C18: once the Search screen is torn down no debounce timeout is pending,
\* none runs and no search call is sent.
C18_TeardownCancelsTimer ==
    /\ [](~mounted => timers = {})
    /\ [][~mounted => (issued' = issued /\ searchCalls' \subseteq searchCalls)]_vars

\* the screen was torn down while the timeout of a non-blank text was
\* pending, and nothing has been sent
C18_Witness ==
    /\ ~mounted
    /\ typed
    /\ Trim(query) # <<>>
    /\ elapsed < DEBOUNCE_MS
    /\ timers = {}
    /\ issued = <<>>

\* C19: on a mounted Search screen, while a search call is in flight
\* loading is true.
C19_LoadingTracksInFlight == (mounted /\ searchCalls # {}) => loading

\* search call n is in flight
InFlight(n) == \E c \in searchCalls : c.n = n

\* search call n has settled
Settled(n) == n <= Len(issued) /\ ~InFlight(n)

\* C20: every search call that was sent eventually settles, with a success
\* or one of the classifier's messages, and on a mounted Search screen with
\* no search call in flight loading is false.
C20_NoStuckSpinner ==
    /\ \A n \in 1..MaxSearchCalls : InFlight(n) ~> Settled(n)
    /\ [][\A c \in searchCalls :
             Settles(c) =>
                 \/ fetchBooks(lastSettled').error = Null
                 \/ /\ fetchBooks(lastSettled').error \in Messages("fetchBooks")
                    /\ errorSearch' = fetchBooks(lastSettled').error]_vars
    /\ []((mounted /\ searchCalls = {}) => ~loading)

\* a search call failed and has settled: the spinner is gone and the error
\* view is on the screen
C20_Witness ==
    /\ mounted
    /\ Settled(1)
    /\ searchCalls = {}
    /\ ~loading
    /\ lastSettled = Response(500, Unparsable)
    /\ SearchErrorShown

-----------------------------------------------------------------------------
(* Properties of the Detail screen's lookup (SpecDetail) *)

\* the lookup whose result is on the screen failed: fetch rejected, the
\* status was not 2xx, or the body did not parse
LookupFailed ==
    \/ lastLookup.t = "reject"
    \/ ~Ok(lastLookup)
    \/ lastLookup.body = Unparsable

\* C12: without navigation parameters, while the result of a settled lookup
\* is on the screen exactly one of fetched and fetchError is non-null: a
\* book comes with a null error, a failed lookup gives a null book and the
\* classifier's message, and a successful lookup with a null body gives a
\* null book and the 'Book not found...' message.
C12_ExactlyOneOfBookAndError ==
    (~hasParams(params) /\ lastLookup # NoOutcome) =>
        /\ (fetched # JsonNull) # (fetchError # Null)
        /\ fetched # JsonNull => fetchError = Null
        /\ LookupFailed =>
               /\ fetched = JsonNull
               /\ fetchError \in Messages("fetchBookById")
               /\ fetchError = getApiErrorMessage_book(FetchJson(lastLookup).error)
        /\ (~LookupFailed /\ lastLookup.body = JsonNull) =>
               /\ fetched = JsonNull
               /\ fetchError = MSG_NOT_FOUND

\* a successful lookup that returned null is on the screen with the
\* synthesized message
C12_Witness ==
    /\ ~hasParams(params)
    /\ lastLookup = Response(200, JsonNull)
    /\ fetched = JsonNull
    /\ fetchError = MSG_NOT_FOUND

-----------------------------------------------------------------------------
(* Properties of the network calls of both screens (SpecScreens) *)

\* a due debounce timeout for a non-blank text runs in this step
DebounceExpires ==
    \E tm \in timers :
        tm.remaining = 0 /\ tm \notin timers' /\ Trim(tm.q) # <<>>

\* a step in which a search, popular or lookup call settles
SearchCallSettles == \E c \in searchCalls : Settles(c)
PopularCallSettles == Cardinality(popularCalls') < Cardinality(popularCalls)
LookupCallSettles ==
    \E c \in lookupCalls : \A d \in lookupCalls' : d.n # c.n

\* a step in which a search, popular or lookup call is sent
SearchCallSent == Len(issued') > Len(issued)
PopularCallSent == Cardinality(popularCalls') > Cardinality(popularCalls)
LookupCallSent == Len(lookupIssued') > Len(lookupIssued)

\* C13: no automatic retry: a step in which a call settles sends no call,
\* and a call is sent only by the expiry of a debounce timeout for a
\* non-blank text or while the Try again button of the matching error view
\* is on a mounted screen; exactly one call is sent per such step.
C13_NoAutomaticRetry ==
    [][/\ (SearchCallSettles \/ PopularCallSettles \/ LookupCallSettles)
            => ~(SearchCallSent \/ PopularCallSent \/ LookupCallSent)
       /\ SearchCallSent =>
            /\ DebounceExpires \/ (mounted /\ SearchErrorShown)
            /\ Len(issued') = Len(issued) + 1
       /\ PopularCallSent =>
            /\ mounted /\ PopularErrorShown
            /\ Cardinality(popularCalls') = Cardinality(popularCalls) + 1
       /\ LookupCallSent =>
            /\ detailMounted /\ DetailErrorShown
            /\ Len(lookupIssued') = Len(lookupIssued) + 1]_vars

\* a search call has failed and nothing was sent after it
C13_Witness ==
    /\ Len(issued) = 1
    /\ searchCalls = {}
    /\ timers = {}
    /\ lastSettled = Response(500, Unparsable)
    /\ errorSearch = MSG_SERVER

\* a step in which a call sent by a mount effect settles after the teardown
\* of its screen
PopularEffectCallSettlesTornDown ==
    /\ ~mounted
    /\ \E c \in popularCalls : c.via = "effect" /\ c \notin popularCalls'
LookupEffectCallSettlesTornDown ==
    /\ ~detailMounted
    /\ \E c \in lookupCalls : c.via = "effect" /\ c \notin lookupCalls'

PopularRetryCallSettlesTornDown ==
    /\ ~mounted
    /\ \E c \in popularCalls : c.via = "retry" /\ c \notin popularCalls'
LookupRetryCallSettlesTornDown ==
    /\ ~detailMounted
    /\ \E c \in lookupCalls : c.via = "retry" /\ c \notin lookupCalls'

\* C17: a popular-books call sent by loadPopularBooks and a lookup sent by
\* loadBook, when they settle after the screen was torn down, update none
\* of the screen's state.
C17_RetryCallsSuppressedOnTeardown ==
    [][/\ PopularRetryCallSettlesTornDown
            => UNCHANGED <<popularBooks, errorPopular, loadingPopular>>
       /\ LookupRetryCallSettlesTornDown
            => UNCHANGED <<fetched, fetchError, detailLoading>>]_vars


=============================================================================
